---- MODULE Spec2Model ----
(***************************************************************************)
(* Ticket Central sync (src/sync.py): the per-(source, flow) mirror unit   *)
(* process_flow_for_source, the retry wrappers around the remote calls,    *)
(* and the outer loop of main, run repeatedly against source tabs that     *)
(* their owners may edit between runs.                                     *)
(***************************************************************************)
EXTENDS Integers, Sequences, FiniteSets, TLC

\* ------------------------------------------------------------------------
\* Bounds of the model (not program constants)
\* ------------------------------------------------------------------------
MaxRuns == 2          \* runs of main per behaviour
MaxFaults == 1        \* failing episodes: once spent, every remote call succeeds and no kill occurs
MaxEdits == 1         \* owner edits (cell edit or new row) per behaviour
MaxPageRows == 2      \* PAGE_ROWS of the runs
MaxBatchRows == 2     \* BATCH_APPEND_ROWS is drawn from 1..MaxBatchRows
MaxTailRows == 3      \* TAIL_WINDOW_ROWS of the runs
MaxPages == 4         \* page reads of one unit (more than a window of MaxTailRows rows needs)
MaxBase == 2          \* BACKOFF_BASE_SEC is drawn from 1..MaxBase
MaxCeiling == 4       \* BACKOFF_MAX_SEC is drawn from 1..MaxCeiling
MaxRegistry == 3      \* entries of the registry of a shard fleet
MaxShards == 3        \* TOTAL_SHARDS of a shard fleet
MaxRowLen == 12       \* cells of a source row given to the row mapper
MaxWidth == 17        \* width given to the row mapper

\* ------------------------------------------------------------------------
\* Program constants (src/sync.py, CONFIG section)
\* ------------------------------------------------------------------------
SYNC_COL_ALL == 30
SYNC_COL_LI == 30
START_ROW_ALL == 4
START_ROW_LI == 3
REQ_ALL == <<2, 3>>
REQ_LI == <<2, 3, 4>>
\* dicts as sequences of <<key, value>> in insertion order
MAP_ALL == << <<1, 1>>, <<3, 2>>, <<10, 5>>, <<2, 6>>, <<11, 7>>, <<12, 8>>, <<4, 16>> >>
MAP_LI == << <<1, 1>>, <<2, 6>>, <<3, 2>>, <<5, 8>>, <<4, 3>> >>
STATIC_ALL == << >>
STATIC_LI == << <<5, "LinkedIn - LX">>, <<7, "DD">> >>
MASTER_WIDTH_MIN == 16
TOTAL_SHARDS == 1
SHARD_INDEX == 0
retries == 6
\* the defaults of BACKOFF_BASE_SEC and BACKOFF_MAX_SEC, in milliseconds (0.8 s, 20.0 s)
BackoffBaseDefault == 800
BackoffMaxDefault == 20000

Flows == <<"ALL", "LI">>
\* the registry Source!B2:B as get_source_ids returns it
Registry == <<1, 2>>

\* ------------------------------------------------------------------------
\* Small arithmetic and sequence helpers
\* ------------------------------------------------------------------------
Max(a, b) == IF a >= b THEN a ELSE b
Min(a, b) == IF a <= b THEN a ELSE b

RECURSIVE MaxKey(_)
\* max(mapping.keys())
MaxKey(pairs) ==
    IF pairs = << >> THEN 0 ELSE Max(Head(pairs)[1], MaxKey(Tail(pairs)))

RECURSIVE MaxOf(_)
\* max(required)
MaxOf(s) == IF s = << >> THEN 0 ELSE Max(Head(s), MaxOf(Tail(s)))

\* ------------------------------------------------------------------------
\* Cells.  str(v).strip() on the cell alphabet of the model
\* ------------------------------------------------------------------------
Blank == {"", " "}
Strip(v) == IF v \in Blank THEN "" ELSE v

RECURSIVE TrimCells(_)
\* a row as the values API returns it: trailing empty cells are omitted
TrimCells(row) ==
    IF row = << >> THEN << >>
    ELSE IF row[Len(row)] = "" THEN TrimCells(SubSeq(row, 1, Len(row) - 1))
    ELSE row

RECURSIVE TrimRows(_)
\* trailing empty rows are omitted from the returned values
TrimRows(rows) ==
    IF rows = << >> THEN << >>
    ELSE IF rows[Len(rows)] = << >> THEN TrimRows(SubSeq(rows, 1, Len(rows) - 1))
    ELSE rows

\* the grid cell (row, col), "" when the row is shorter
Cell(row, col) == IF col <= Len(row) THEN row[col] ELSE ""

\* write one cell of a grid row, padding the row with empty cells
SetCell(row, col, v) ==
    [c \in 1..Max(Len(row), col) |-> IF c = col THEN v ELSE Cell(row, c)]

\* ------------------------------------------------------------------------
\* Flow definition (process_flow_for_source, lines 211-226)
\* ------------------------------------------------------------------------
start_row(flow) == IF flow = "ALL" THEN START_ROW_ALL ELSE START_ROW_LI
required(flow) == IF flow = "ALL" THEN REQ_ALL ELSE REQ_LI
mapping(flow) == IF flow = "ALL" THEN MAP_ALL ELSE MAP_LI
statics(flow) == IF flow = "ALL" THEN STATIC_ALL ELSE STATIC_LI
sync_col(flow) == IF flow = "ALL" THEN SYNC_COL_ALL ELSE SYNC_COL_LI

ensure_cols(flow) == Max(sync_col(flow), IF mapping(flow) # << >> THEN MaxKey(mapping(flow)) ELSE 1)
max_col(flow) ==
    Max(Max(IF mapping(flow) # << >> THEN MaxKey(mapping(flow)) ELSE 1, MaxOf(required(flow))),
        sync_col(flow))
hdr_row(flow) == start_row(flow) - 1
HeaderText(flow) == IF flow = "ALL" THEN "__SYNCED_ALL" ELSE "__SYNCED_LI"

\* ------------------------------------------------------------------------
\* Row mapper
\* ------------------------------------------------------------------------
RECURSIVE ApplyStatics(_, _, _)
ApplyStatics(out, st, width) ==
    IF st = << >> THEN out
    ELSE LET d_idx == Head(st)[1]
             sval == Head(st)[2]
         IN ApplyStatics(IF 1 <= d_idx /\ d_idx <= width
                            THEN [out EXCEPT ![d_idx] = sval] ELSE out,
                         Tail(st), width)

RECURSIVE ApplyMapping(_, _, _, _)
ApplyMapping(out, row, mp, width) ==
    IF mp = << >> THEN out
    ELSE LET s_idx == Head(mp)[1]
             d_idx == Head(mp)[2]
         IN ApplyMapping(IF 1 <= d_idx /\ d_idx <= width
                            THEN [out EXCEPT ![d_idx] =
                                     IF s_idx - 1 < Len(row) THEN row[s_idx] ELSE ""]
                            ELSE out,
                         row, Tail(mp), width)

\* mutant: the statics are written after the mapped fields
map_row_statics_last(row, mp, st, width) ==
    ApplyStatics(ApplyMapping([d \in 1..width |-> ""], row, mp, width), st, width)

map_row_to_master(row, mp, st, width) ==
    ApplyMapping(ApplyStatics([d \in 1..width |-> ""], st, width), row, mp, width)

\* mutant: only the first required column is tested
BadRowFirstOnly(row, req) ==
    req # << >> /\ (req[1] - 1 >= Len(row) \/ Strip(row[req[1]]) = "")

\* the required-columns loop of lines 282-286
BadRow(row, req) ==
    \E k \in 1..Len(req) : req[k] - 1 >= Len(row) \/ Strip(row[req[k]]) = ""

\* lines 291-293
SyncedVal(row, col) == IF col - 1 < Len(row) THEN Strip(row[col]) ELSE ""

\* mutant: the flag is read at index sync_col instead of sync_col - 1
IsFlaggedNextCol(row, col) == SyncedVal(row, col + 1) # ""

\* the already-flagged test of line 294
IsFlagged(row, col) == SyncedVal(row, col) # ""

\* ------------------------------------------------------------------------
\* Retry policy
\* ------------------------------------------------------------------------
\* outcomes of one remote attempt: success, an APIError whose message
\* matches RETRYABLE_SNIPPETS (429/quota), an APIError that does not (400),
\* and an exception that is no APIError (a dropped connection)
Outcomes == {"ok", "api_429", "api_400", "conn"}
IsAPIError(o) == o \in {"api_429", "api_400"}
Retryable(o) == o = "api_429"

\* mutant: the shard index is taken as 1-based
ShardFilterOneBased(srcs, total, index) ==
    IF total > 1
    THEN LET keep == {k \in 1..Len(srcs) : (k - 1) % total = index - 1}
             RECURSIVE Pick(_)
             Pick(k) == IF k > Len(srcs) THEN << >>
                        ELSE IF k \in keep THEN <<srcs[k]>> \o Pick(k + 1)
                        ELSE Pick(k + 1)
         IN Pick(1)
    ELSE srcs

\* the shard filter of main, lines 363-366 (0-based enumerate index)
ShardFilter(srcs, total, index) ==
    IF total > 1
    THEN LET keep == {k \in 1..Len(srcs) : (k - 1) % total = index}
             RECURSIVE Pick(_)
             Pick(k) == IF k > Len(srcs) THEN << >>
                        ELSE IF k \in keep THEN <<srcs[k]>> \o Pick(k + 1)
                        ELSE Pick(k + 1)
         IN Pick(1)
    ELSE srcs

\* ------------------------------------------------------------------------
\* State
\* ------------------------------------------------------------------------
VARIABLES
    \* configuration read from the environment
    PAGE_ROWS, BATCH_APPEND_ROWS, TAIL_WINDOW_ROWS, START_FROM_NOW,
    BACKOFF_BASE_SEC, BACKOFF_MAX_SEC,   \* milliseconds
    \* the remote service
    tabs,            \* tabs[sid][flow]: [exists, rows (the grid, row 1 first), cols]
    dest,            \* the master Tickets tab: the appended rows, oldest first
    \* main
    pc, sources, flowIdx, srcIdx, flow_app, flow_scan, grand_app, grand_scan,
    \* process_flow_for_source
    max_row, r, page_end, values, i, total_appended, total_scanned,
    batch_rows, flag_updates,
    pages,           \* the ranges <<r, page_end>> this unit has requested and read, in order
    scanLog,         \* the rows this unit has scanned: <<abs_row, row as read>>, in order
    \* the retry wrapper in progress
    attempt, delay, lastOutcome, wstatus,
    waits,           \* the waits of the wrapper call in progress, in order
    \* history
    run,             \* runs of main started so far
    runStatus,       \* "none" | "running" | "done" | "killed" | "aborted"
    attempted,       \* the units main has called in this run, in order
    results,         \* what each of them gave main: [a, s, exc]
    unitLog,         \* the unit main called last: its tab when called, and how it ended
    faults, edits,   \* budgets spent
    runFaulty, unitFaulty,  \* a remote call of this run / unit did not succeed
    envChanged,      \* the owners changed a source since the previous run started
    prevClean,       \* the previous run completed, no remote call of it failed, no change since
    prevBaseline,    \* START_FROM_NOW of the previous run
    preFlagged,      \* the source rows whose flag cell was non-empty when this run started
    baselined,       \* <<row, run>>: rows a fault-free baseline unit of that run found valid,
                     \* unflagged and in its window
    flaggedNormal,   \* rows whose flag a normal-mode unit has written
    lastAppend,      \* the source rows of this unit's latest successful append call
    orphaned,        \* rows appended by a run that was killed before their flag write
    flagFailed,      \* rows whose in-loop flag write failed with an APIError
    \* developments apart from the run of one worker
    probe,           \* a call of map_row_to_master: its arguments and its result
    fleet            \* the shard workers of a deployment that run side by side

\* what no step of a run changes: the settings, and the two developments apart
cfgVars == <<PAGE_ROWS, BATCH_APPEND_ROWS, TAIL_WINDOW_ROWS, BACKOFF_BASE_SEC,
             BACKOFF_MAX_SEC, probe, fleet>>
mainVars == <<sources, flowIdx, srcIdx, flow_app, flow_scan, grand_app, grand_scan>>
unitVars == <<max_row, r, page_end, values, i, total_appended, total_scanned,
              batch_rows, flag_updates, pages, scanLog>>
retryVars == <<attempt, delay, lastOutcome, wstatus, waits>>
histVars == <<run, runStatus, attempted, results, unitLog, edits, envChanged, prevClean,
              prevBaseline, preFlagged, baselined, flaggedNormal, lastAppend, orphaned, flagFailed>>
faultVars == <<faults, runFaulty, unitFaulty>>
vars == <<cfgVars, START_FROM_NOW, tabs, dest, pc, mainVars, unitVars, retryVars,
          histVars, faultVars>>

\* mutant: the ceiling is not applied
backoff_delay_unclamped(d) == d * 2

\* backoff_delay's return value
backoff_delay(d) == Min(d * 2, BACKOFF_MAX_SEC)

NoProbe == [state |-> "none"]
NoFleet == [state |-> "none"]

\* ------------------------------------------------------------------------
\* Source tabs the model starts from
\* ------------------------------------------------------------------------
RowOK == <<"t", "a", "b", "c">>
RowBlank == <<"t", " ", "b", "c">>
RowShort == <<"t", "a">>
RowEmpty == << >>
RowFlagged == SetCell(RowOK, SYNC_COL_ALL, "1")
RowSpaceFlag == SetCell(RowOK, SYNC_COL_ALL, " ")

MissingTab == [exists |-> FALSE, rows |-> << >>, cols |-> 0]
Tab(flow, data, ncols) ==
    [exists |-> TRUE,
     rows |-> [k \in 1..(start_row(flow) - 1) |-> <<"hdr">>] \o data,
     cols |-> ncols]

DataChoices ==
    { <<RowOK, RowOK, RowOK, RowOK>>,
      <<RowOK, RowBlank, RowSpaceFlag>>,
      <<RowFlagged, RowShort, RowOK, RowEmpty>> }

TabChoices(sid, flow) ==
    IF sid = 1 /\ flow = "ALL" THEN {Tab(flow, d, 30) : d \in DataChoices}
    ELSE IF sid = 1 /\ flow = "LI" THEN {MissingTab}
    ELSE IF flow = "ALL" THEN {Tab(flow, << >>, 26)}
    ELSE {Tab(flow, <<RowOK, RowShort>>, 26)}

SourceIds == {Registry[k] : k \in 1..Len(Registry)}
FlowSet == {Flows[k] : k \in 1..Len(Flows)}

\* the unit main is in: flow and source id
flow == Flows[flowIdx]
sid == sources[srcIdx]
ws == tabs[sid][flow]

NoUnit == [sid |-> 0, flow |-> "", run |-> 0, baseline |-> FALSE, snap |-> << >>,
           dlen |-> 0, state |-> "none", a |-> 0, s |-> 0, faulty |-> FALSE]

\* the data rows <<sid, flow, abs_row>> whose flag cell is non-empty
FlaggedRows ==
    {x \in SourceIds \X FlowSet \X (1..12) :
        /\ tabs[x[1]][x[2]].exists
        /\ start_row(x[2]) <= x[3] /\ x[3] <= Len(tabs[x[1]][x[2]].rows)
        /\ Strip(Cell(tabs[x[1]][x[2]].rows[x[3]], sync_col(x[2]))) # ""}

\* everything but the settings and the source tabs, as it is before the first run
InitRest ==
    /\ START_FROM_NOW = FALSE
    /\ dest = << >>
    /\ pc = "idle"
    /\ sources = << >> /\ flowIdx = 1 /\ srcIdx = 1
    /\ flow_app = 0 /\ flow_scan = 0 /\ grand_app = 0 /\ grand_scan = 0
    /\ max_row = 0 /\ r = 0 /\ page_end = 0 /\ values = << >> /\ i = 0
    /\ total_appended = 0 /\ total_scanned = 0
    /\ batch_rows = << >> /\ flag_updates = << >> /\ pages = << >> /\ scanLog = << >>
    /\ attempt = 0 /\ delay = BACKOFF_BASE_SEC /\ lastOutcome = "ok" /\ wstatus = "none"
    /\ waits = << >>
    /\ run = 0 /\ runStatus = "none" /\ attempted = << >> /\ results = << >>
    /\ unitLog = NoUnit /\ prevBaseline = FALSE
    /\ faults = 0 /\ edits = 0 /\ runFaulty = FALSE /\ unitFaulty = FALSE
    /\ envChanged = FALSE /\ prevClean = FALSE /\ preFlagged = FlaggedRows
    /\ baselined = {} /\ flaggedNormal = {} /\ lastAppend = << >>
    /\ orphaned = {} /\ flagFailed = {}

Init ==
    /\ PAGE_ROWS = MaxPageRows
    /\ BATCH_APPEND_ROWS \in 1..MaxBatchRows
    /\ TAIL_WINDOW_ROWS = MaxTailRows
    /\ BACKOFF_BASE_SEC = BackoffBaseDefault /\ BACKOFF_MAX_SEC = BackoffMaxDefault
    /\ probe = NoProbe /\ fleet = NoFleet
    /\ tabs \in [SourceIds -> [FlowSet -> UNION {TabChoices(s, f) : s \in SourceIds, f \in FlowSet}]]
    /\ \A s \in SourceIds, f \in FlowSet : tabs[s][f] \in TabChoices(s, f)
    /\ InitRest

\* ------------------------------------------------------------------------
\* The remote service
\* ------------------------------------------------------------------------
\* ws.get(rng) for rows r0..pe and columns 1..mc; a range with no value gives no row.
\* The service takes the two cells of a range as its corners in either order.
Get(tab, r0, pe, mc) ==
    LET lo == Min(r0, pe)
        hi == Max(r0, pe)
    IN TrimRows([k \in 1..(hi - lo + 1) |->
                   TrimCells(SubSeq(tab.rows[lo + k - 1], 1, Min(mc, Len(tab.rows[lo + k - 1]))))])

\* the service refuses a batch_update that names a cell outside the grid
FlagsInGrid(tab, absRows) == \A k \in 1..Len(absRows) : absRows[k] <= Len(tab.rows)

\* mutant: the header goes to the first data row
WriteHeaderCellDataRow(tab, f) ==
    [tab EXCEPT !.rows[start_row(f)] = SetCell(@, sync_col(f), HeaderText(f))]

\* mutant: the flags go to the column left of the flag column
WriteFlagsShifted(tab, absRows, col) ==
    [tab EXCEPT !.rows =
        [k \in 1..Len(@) |->
            IF \E j \in 1..Len(absRows) : absRows[j] = k THEN SetCell(@[k], col - 1, "1")
            ELSE @[k]]]

\* ws.batch_update(flag_updates): "1" into the flag cell of each listed row
WriteFlags(tab, absRows, col) ==
    [tab EXCEPT !.rows =
        [k \in 1..Len(@) |->
            IF \E j \in 1..Len(absRows) : absRows[j] = k THEN SetCell(@[k], col, "1") ELSE @[k]]]

\* ws.update of the header cell
WriteHeaderCell(tab, f) ==
    [tab EXCEPT !.rows[hdr_row(f)] = SetCell(@, sync_col(f), HeaderText(f))]

\* ws.resize(nrows, ncols); nrows is never below the current row count here
Resize(tab, nrows, ncols) ==
    [tab EXCEPT !.rows = @ \o [k \in 1..(nrows - Len(@)) |-> << >>], !.cols = ncols]

\* mutant: the batch is put before the rows the destination holds
AppendRowsFront(d, rows, s, f, n) ==
    [k \in 1..Len(rows) |-> [run |-> n, src |-> <<s, f, rows[k].abs>>, out |-> rows[k].out]] \o d

\* mutant: the first row of the batch is not sent
AppendRowsSkipFirst(d, rows, s, f, n) ==
    d \o [k \in 1..(Len(rows) - 1) |->
            [run |-> n, src |-> <<s, f, rows[k + 1].abs>>, out |-> rows[k + 1].out]]

\* tickets_ws.append_rows(rows)
AppendRows(d, rows, s, f, n) ==
    d \o [k \in 1..Len(rows) |-> [run |-> n, src |-> <<s, f, rows[k].abs>>, out |-> rows[k].out]]

\* mutant: the window is one row too long
window_start_long(f, mr, tail) == Max(start_row(f), mr - tail)

\* line 255
window_start(f, mr, tail) == Max(start_row(f), mr - tail + 1)

\* mutant: the page is one row too long
page_end_long(r0, size, mr) == Min(r0 + size, mr)

\* line 273
page_end_of(r0, size, mr) == Min(r0 + size - 1, mr)

\* mutant: the test of the looked-up tab is left out
TabMissingNever(tab) == FALSE

\* line 231: get_ws_safe gave None
TabMissing(tab) == ~tab.exists

\* the two skip tests of the row loop, lines 281-295
Unseen(row, f) == ~BadRow(row, required(f)) /\ ~IsFlagged(row, sync_col(f))

\* mutant: the setting is ignored
baseline_mode_ignored(sfn) == FALSE

\* line 305: the unit only flags when the run is a baseline run
baseline_mode(sfn) == sfn

\* the batch-full tests of lines 306 and 318
BatchFull(n, size) == n >= size

\* mutant: a batch counts as one row
count_batch_one(total, batch) == total + 1

\* lines 325 and 338: total_appended += len(batch_rows)
count_batch(total, batch) == total + Len(batch)

\* mutant: one attempt too many
ShouldRetryOnceMore(o, att) == IsAPIError(o) /\ Retryable(o) /\ att <= retries

\* range(retries) with the retryable test of the except clause
ShouldRetry(o, att) == IsAPIError(o) /\ Retryable(o) /\ att < retries

\* master_width of main, for a Tickets tab no wider than the minimum
master_width == MASTER_WIDTH_MIN

Rows3(s, f, absRows) == {<<s, f, absRows[k]>> : k \in 1..Len(absRows)}

\* the rows of a tab that are in the tail window, valid and unflagged
Qualifying(f, grid, tail) ==
    {a \in 1..Len(grid) :
        /\ a >= Max(start_row(f), Len(grid) - tail + 1)
        /\ \A k \in 1..Len(required(f)) : Strip(Cell(grid[a], required(f)[k])) # ""
        /\ Strip(Cell(grid[a], sync_col(f))) = ""}

\* ------------------------------------------------------------------------
\* Building blocks of the actions
\* ------------------------------------------------------------------------
CurAttempt == IF wstatus = "run" THEN attempt ELSE 0
CurDelay == IF wstatus = "run" THEN delay ELSE BACKOFF_BASE_SEC
CurWaits == IF wstatus = "run" THEN waits ELSE << >>

RetryIdle ==
    /\ attempt' = 0 /\ delay' = BACKOFF_BASE_SEC /\ lastOutcome' = "ok" /\ wstatus' = "none"
    /\ waits' = << >>

Fault ==
    /\ faults < MaxFaults
    /\ faults' = faults + 1 /\ runFaulty' = TRUE /\ unitFaulty' = TRUE

\* a call the service is sure to refuse: it fails whatever the budget
Refused ==
    /\ faults' = faults /\ runFaulty' = TRUE /\ unitFaulty' = TRUE

ResetLocals ==
    /\ max_row' = 0 /\ r' = 0 /\ page_end' = 0 /\ values' = << >> /\ i' = 0
    /\ total_appended' = 0 /\ total_scanned' = 0
    /\ batch_rows' = << >> /\ flag_updates' = << >> /\ pages' = << >> /\ scanLog' = << >>

\* the unit returns (a, s) to main, or raises and main takes (0, 0): lines 373-379
ReturnUnit(a, s, exc) ==
    /\ flow_app' = flow_app + a /\ flow_scan' = flow_scan + s
    /\ srcIdx' = srcIdx + 1 /\ pc' = "next_unit"
    /\ unitLog' = [unitLog EXCEPT !.state = IF exc THEN "raised" ELSE "returned",
                                  !.a = a, !.s = s, !.faulty = unitFaulty']
    /\ results' = Append(results, [a |-> a, s |-> s, exc |-> exc])
    /\ baselined' = IF START_FROM_NOW /\ ~exc /\ ~unitFaulty'
                    THEN baselined \cup
                         {<<<<sid, flow, a2>>, run>> :
                             a2 \in Qualifying(flow, unitLog.snap, TAIL_WINDOW_ROWS)}
                    ELSE baselined
    /\ ResetLocals
    /\ UNCHANGED <<sources, flowIdx, grand_app, grand_scan>>
    /\ UNCHANGED <<cfgVars, START_FROM_NOW, run, runStatus, attempted, edits, envChanged,
                   prevClean, prevBaseline, preFlagged, orphaned>>

\* mutant: main counts what the unit had reached when it raised
RaiseUnitKeepsCounts == ReturnUnit(total_appended, total_scanned, TRUE)

\* lines 374-377: main catches the exception and takes (0, 0)
RaiseUnit == ReturnUnit(0, 0, TRUE)

\* one attempt of a retry wrapper (lines 114-177): OkAct when the attempt succeeds,
\* RaiseAct when its error leaves the wrapper
Wrap(o, OkAct, RaiseAct) ==
    /\ lastOutcome' = o
    /\ \/ /\ o = "ok"
          /\ wstatus' = "ret" /\ attempt' = CurAttempt /\ delay' = CurDelay
          /\ waits' = CurWaits
          /\ UNCHANGED faultVars
          /\ OkAct
       \/ /\ o # "ok" /\ ShouldRetry(o, CurAttempt)
          /\ faults < MaxFaults
          /\ wstatus' = "run" /\ attempt' = CurAttempt + 1 /\ delay' = backoff_delay(CurDelay)
          /\ waits' = Append(CurWaits, CurDelay)
          /\ UNCHANGED <<cfgVars, START_FROM_NOW, tabs, dest, pc, mainVars, unitVars,
                         histVars, faultVars>>
       \/ /\ o # "ok" /\ ~ShouldRetry(o, CurAttempt)
          /\ Fault
          /\ wstatus' = "exc" /\ attempt' = CurAttempt /\ delay' = CurDelay
          /\ waits' = CurWaits
          /\ RaiseAct

\* ------------------------------------------------------------------------
\* main (lines 345-388)
\* ------------------------------------------------------------------------
\* a run of main starts; the environment fixes START_FROM_NOW for the run
StartRun ==
    /\ pc = "idle" /\ run < MaxRuns
    /\ run' = run + 1 /\ runStatus' = "running"
    /\ START_FROM_NOW' \in BOOLEAN
    /\ pc' = "open_master"
    /\ attempted' = << >> /\ results' = << >> /\ unitLog' = NoUnit
    /\ runFaulty' = FALSE /\ unitFaulty' = FALSE
    /\ prevClean' = (runStatus = "done" /\ ~runFaulty /\ ~envChanged)
    /\ prevBaseline' = START_FROM_NOW
    /\ envChanged' = FALSE
    /\ preFlagged' = FlaggedRows
    /\ lastAppend' = << >>
    /\ RetryIdle
    /\ UNCHANGED <<cfgVars, tabs, dest, mainVars, unitVars, faults, edits, baselined,
                   flaggedNormal, orphaned, flagFailed>>

\* line 348: open_spreadsheet_safe(gc, MASTER_SPREADSHEET_ID), outside any try
OpenMaster ==
    /\ pc = "open_master"
    /\ \E o \in Outcomes :
        Wrap(o,
             /\ pc' = "startup"
             /\ UNCHANGED <<cfgVars, START_FROM_NOW, tabs, dest, mainVars, unitVars, histVars>>,
             /\ pc' = "idle" /\ runStatus' = "aborted"
             /\ UNCHANGED <<cfgVars, START_FROM_NOW, tabs, dest, mainVars, unitVars, run,
                            attempted, results, unitLog, edits, envChanged, prevClean,
                            prevBaseline, preFlagged, baselined, flaggedNormal, lastAppend,
                            orphaned, flagFailed>>)

\* lines 349-368: the Tickets tab, the source list (never empty here) and the shard
\* filter; these calls have no retry wrapper and an error of theirs ends the run
Startup ==
    /\ pc = "startup"
    /\ \/ /\ sources' = ShardFilter(Registry, TOTAL_SHARDS, SHARD_INDEX)
          /\ flowIdx' = 1 /\ srcIdx' = 1
          /\ flow_app' = 0 /\ flow_scan' = 0 /\ grand_app' = 0 /\ grand_scan' = 0
          /\ pc' = "next_unit"
          /\ UNCHANGED <<runStatus, faultVars>>
       \/ /\ Fault
          /\ pc' = "idle" /\ runStatus' = "aborted"
          /\ UNCHANGED mainVars
    /\ RetryIdle
    /\ UNCHANGED <<cfgVars, START_FROM_NOW, tabs, dest, unitVars, run, attempted, results,
                   unitLog, edits, envChanged, prevClean, prevBaseline, preFlagged, baselined,
                   flaggedNormal, lastAppend, orphaned, flagFailed>>

\* main calls process_flow_for_source for the next source of the flow
BeginUnit ==
    /\ pc = "next_unit" /\ srcIdx <= Len(sources)
    /\ pc' = "open_ss"
    /\ attempted' = Append(attempted, <<flow, sid>>)
    /\ unitLog' = [NoUnit EXCEPT !.sid = sid, !.flow = flow, !.run = run,
                                 !.baseline = START_FROM_NOW, !.snap = ws.rows,
                                 !.dlen = Len(dest),
                                 !.state = "running"]
    /\ unitFaulty' = FALSE
    /\ lastAppend' = << >>
    /\ RetryIdle
    /\ UNCHANGED <<cfgVars, START_FROM_NOW, tabs, dest, mainVars, unitVars, run, runStatus,
                   results, edits, envChanged, prevClean, prevBaseline, preFlagged, baselined,
                   flaggedNormal, orphaned, flagFailed, faults, runFaulty>>

\* the inner for loop is exhausted: flow totals go to the grand totals
EndFlow ==
    /\ pc = "next_unit" /\ srcIdx > Len(sources)
    /\ grand_app' = grand_app + flow_app /\ grand_scan' = grand_scan + flow_scan
    /\ IF flowIdx < Len(Flows)
       THEN /\ flowIdx' = flowIdx + 1 /\ srcIdx' = 1 /\ flow_app' = 0 /\ flow_scan' = 0
            /\ UNCHANGED <<pc, runStatus>>
       ELSE /\ pc' = "idle" /\ runStatus' = "done"
            /\ UNCHANGED <<flowIdx, srcIdx, flow_app, flow_scan>>
    /\ RetryIdle
    /\ UNCHANGED <<cfgVars, START_FROM_NOW, tabs, dest, sources, unitVars, run, attempted,
                   results, unitLog, edits, envChanged, prevClean, prevBaseline, preFlagged,
                   baselined, flaggedNormal, lastAppend, orphaned, flagFailed, faultVars>>

\* ------------------------------------------------------------------------
\* process_flow_for_source (lines 210-342)
\* ------------------------------------------------------------------------
UnitFrame == UNCHANGED <<sources, flowIdx, srcIdx, flow_app, flow_scan, grand_app, grand_scan,
                         cfgVars, START_FROM_NOW, run, runStatus, attempted, results, unitLog,
                         edits, envChanged, prevClean, prevBaseline, preFlagged, baselined,
                         orphaned>>

\* line 229
OpenSpreadsheet ==
    /\ pc = "open_ss"
    /\ \E o \in Outcomes :
        Wrap(o,
             /\ pc' = "get_ws"
             /\ UnitFrame
             /\ UNCHANGED <<tabs, dest, unitVars, flaggedNormal, lastAppend, flagFailed>>,
             /\ RaiseUnit
             /\ UNCHANGED <<tabs, dest, flaggedNormal, lastAppend, flagFailed>>)

\* lines 230-233: a missing tab makes the unit return (0, 0)
GetWs ==
    /\ pc = "get_ws"
    /\ \E o \in Outcomes :
        Wrap(o,
             /\ IF ~TabMissing(ws)
                THEN /\ pc' = "ensure_cols" /\ UnitFrame /\ UNCHANGED unitVars
                ELSE ReturnUnit(0, 0, FALSE)
             /\ UNCHANGED <<tabs, dest, flaggedNormal, lastAppend, flagFailed>>,
             /\ RaiseUnit
             /\ UNCHANGED <<tabs, dest, flaggedNormal, lastAppend, flagFailed>>)

\* lines 236-242: grow the grid to the sync column; an error is ignored
EnsureCols ==
    /\ pc = "ensure_cols"
    /\ \/ /\ ws.cols >= ensure_cols(flow)
          /\ UNCHANGED <<tabs, faultVars>>
       \/ /\ ws.cols < ensure_cols(flow)
          /\ tabs' = [tabs EXCEPT ![sid][flow] =
                        Resize(@, Max(Len(@.rows), start_row(flow)), ensure_cols(flow))]
          /\ UNCHANGED faultVars
       \/ /\ ws.cols < ensure_cols(flow)
          /\ Fault
          /\ UNCHANGED tabs
    /\ pc' = "hdr"
    /\ RetryIdle /\ UnitFrame
    /\ UNCHANGED <<dest, unitVars, flaggedNormal, lastAppend, flagFailed>>

\* lines 244-249: write the header of the flag column; an error is ignored
WriteHeader ==
    /\ pc = "hdr"
    /\ \/ /\ tabs' = [tabs EXCEPT ![sid][flow] = WriteHeaderCell(@, flow)]
          /\ UNCHANGED faultVars
       \/ /\ Fault
          /\ UNCHANGED tabs
    /\ pc' = "row_count"
    /\ RetryIdle /\ UnitFrame
    /\ UNCHANGED <<dest, unitVars, flaggedNormal, lastAppend, flagFailed>>

\* lines 251-257 and 271: an empty tab returns (0, 0), else the window is set
CheckRows ==
    /\ pc = "row_count"
    /\ UNCHANGED faultVars
    /\ IF Len(ws.rows) < start_row(flow)
       THEN ReturnUnit(0, 0, FALSE)
       ELSE /\ max_row' = Len(ws.rows)
            /\ r' = window_start(flow, Len(ws.rows), TAIL_WINDOW_ROWS)
            /\ pc' = IF ws.cols < max_col(flow) THEN "ensure_cols2" ELSE "read_page"
            /\ UnitFrame
            /\ UNCHANGED <<page_end, values, i, total_appended, total_scanned, batch_rows,
                           flag_updates, pages, scanLog>>
    /\ RetryIdle
    /\ UNCHANGED <<tabs, dest, flaggedNormal, lastAppend, flagFailed>>

\* lines 258-262: the second resize, tried when the first one left the grid narrow
EnsureCols2 ==
    /\ pc = "ensure_cols2"
    /\ \/ /\ tabs' = [tabs EXCEPT ![sid][flow] =
                        Resize(@, Max(Len(@.rows), max_row), max_col(flow))]
          /\ UNCHANGED faultVars
       \/ /\ Fault
          /\ UNCHANGED tabs
    /\ pc' = "read_page"
    /\ RetryIdle /\ UnitFrame
    /\ UNCHANGED <<dest, unitVars, flaggedNormal, lastAppend, flagFailed>>

\* lines 272-275: read the next page of the window
ReadPage ==
    /\ pc = "read_page" /\ r <= max_row
    /\ Len(pages) < MaxPages
    /\ \E o \in Outcomes :
        Wrap(o,
             /\ page_end' = page_end_of(r, PAGE_ROWS, max_row)
             /\ values' = Get(ws, r, page_end_of(r, PAGE_ROWS, max_row), max_col(flow))
             /\ i' = 0
             /\ pages' = Append(pages, <<r, page_end_of(r, PAGE_ROWS, max_row)>>)
             /\ pc' = "rows"
             /\ UnitFrame
             /\ UNCHANGED <<tabs, dest, max_row, r, total_appended, total_scanned, batch_rows,
                            flag_updates, scanLog, flaggedNormal, lastAppend, flagFailed>>,
             /\ RaiseUnit
             /\ UNCHANGED <<tabs, dest, flaggedNormal, lastAppend, flagFailed>>)

\* lines 277-318: one row of the page
ProcessRow ==
    /\ pc = "rows" /\ i < Len(values)
    /\ LET row == values[i + 1]
           abs_row == r + i
       IN /\ total_scanned' = total_scanned + 1
          /\ scanLog' = Append(scanLog, <<abs_row, row>>)
          /\ i' = i + 1
          /\ IF ~Unseen(row, flow)
             THEN UNCHANGED <<batch_rows, flag_updates, pc>>
             ELSE /\ flag_updates' = Append(flag_updates, abs_row)
                  /\ IF baseline_mode(START_FROM_NOW)
                     THEN /\ UNCHANGED batch_rows
                          /\ pc' = IF BatchFull(Len(flag_updates'), BATCH_APPEND_ROWS)
                                   THEN "loop_flag_baseline" ELSE "rows"
                     ELSE /\ batch_rows' =
                                Append(batch_rows,
                                       [abs |-> abs_row,
                                        out |-> map_row_to_master(row, mapping(flow),
                                                                  statics(flow), master_width)])
                          /\ pc' = IF BatchFull(Len(batch_rows'), BATCH_APPEND_ROWS)
                                   THEN "loop_append" ELSE "rows"
    /\ RetryIdle /\ UnitFrame
    /\ UNCHANGED <<tabs, dest, max_row, r, page_end, values, total_appended, pages,
                   flaggedNormal, lastAppend, flagFailed, faultVars>>

\* line 329: the page is done
EndPage ==
    /\ pc = "rows" /\ i >= Len(values)
    /\ r' = page_end + 1
    /\ values' = << >> /\ i' = 0
    /\ pc' = "read_page"
    /\ RetryIdle /\ UnitFrame
    /\ UNCHANGED <<tabs, dest, max_row, page_end, total_appended, total_scanned, batch_rows,
                   flag_updates, pages, scanLog, flaggedNormal, lastAppend, flagFailed,
                   faultVars>>

\* line 319: append a full batch to the master
LoopAppend ==
    /\ pc = "loop_append"
    /\ \E o \in Outcomes :
        Wrap(o,
             /\ dest' = AppendRows(dest, batch_rows, sid, flow, run)
             /\ lastAppend' = [k \in 1..Len(batch_rows) |-> batch_rows[k].abs]
             /\ pc' = "loop_flag"
             /\ UnitFrame
             /\ UNCHANGED <<tabs, unitVars, flaggedNormal, flagFailed>>,
             /\ RaiseUnit
             /\ UNCHANGED <<tabs, dest, flaggedNormal, lastAppend, flagFailed>>)

\* lines 321-327: write the flags of the batch just appended; an APIError is only logged
LoopFlag ==
    /\ pc = "loop_flag"
    /\ \E o \in Outcomes :
        \/ /\ o = "ok" /\ FlagsInGrid(ws, flag_updates)
           /\ tabs' = [tabs EXCEPT ![sid][flow] = WriteFlags(@, flag_updates, sync_col(flow))]
           /\ flaggedNormal' = flaggedNormal \cup Rows3(sid, flow, flag_updates)
           /\ total_appended' = count_batch(total_appended, batch_rows)
           /\ batch_rows' = << >> /\ flag_updates' = << >>
           /\ pc' = "rows"
           /\ UnitFrame
           /\ UNCHANGED <<max_row, r, page_end, values, i, total_scanned, pages, scanLog,
                          flagFailed, faultVars>>
        \/ /\ IsAPIError(o)
           /\ Fault \/ (~FlagsInGrid(ws, flag_updates) /\ Refused)
           /\ flagFailed' = flagFailed \cup Rows3(sid, flow, flag_updates)
           /\ total_appended' = count_batch(total_appended, batch_rows)
           /\ batch_rows' = << >> /\ flag_updates' = << >>
           /\ pc' = "rows"
           /\ UnitFrame
           /\ UNCHANGED <<tabs, max_row, r, page_end, values, i, total_scanned, pages, scanLog,
                          flaggedNormal>>
        \/ /\ o # "ok" /\ ~IsAPIError(o)
           /\ Fault
           /\ RaiseUnit
           /\ UNCHANGED <<tabs, flaggedNormal, flagFailed>>
    /\ RetryIdle
    /\ UNCHANGED <<dest, lastAppend>>

\* lines 305-312: baseline mode writes the flags of a full batch; an APIError is only logged
LoopFlagBaseline ==
    /\ pc = "loop_flag_baseline"
    /\ \E o \in Outcomes :
        \/ /\ o = "ok" /\ FlagsInGrid(ws, flag_updates)
           /\ tabs' = [tabs EXCEPT ![sid][flow] = WriteFlags(@, flag_updates, sync_col(flow))]
           /\ flag_updates' = << >>
           /\ pc' = "rows"
           /\ UnitFrame
           /\ UNCHANGED <<max_row, r, page_end, values, i, total_appended, total_scanned,
                          batch_rows, pages, scanLog, faultVars>>
        \/ /\ IsAPIError(o)
           /\ Fault \/ (~FlagsInGrid(ws, flag_updates) /\ Refused)
           /\ flag_updates' = << >>
           /\ pc' = "rows"
           /\ UnitFrame
           /\ UNCHANGED <<tabs, max_row, r, page_end, values, i, total_appended, total_scanned,
                          batch_rows, pages, scanLog>>
        \/ /\ o # "ok" /\ ~IsAPIError(o)
           /\ Fault
           /\ RaiseUnit
           /\ UNCHANGED tabs
    /\ RetryIdle
    /\ UNCHANGED <<dest, flaggedNormal, lastAppend, flagFailed>>

\* lines 331-342, reached when the while loop ends: what remains to flush
ExitLoop ==
    /\ pc = "read_page" /\ r > max_row
    /\ UNCHANGED faultVars
    /\ IF (~START_FROM_NOW /\ batch_rows # << >>) \/ flag_updates # << >>
       THEN /\ pc' = IF ~START_FROM_NOW /\ batch_rows # << >> THEN "final_append"
                     ELSE "final_flag"
            /\ UnitFrame /\ UNCHANGED unitVars
       ELSE ReturnUnit(total_appended, total_scanned, FALSE)
    /\ RetryIdle
    /\ UNCHANGED <<tabs, dest, flaggedNormal, lastAppend, flagFailed>>

\* lines 336-338: append the last, partial batch
FinalAppend ==
    /\ pc = "final_append"
    /\ \E o \in Outcomes :
        Wrap(o,
             /\ dest' = AppendRows(dest, batch_rows, sid, flow, run)
             /\ lastAppend' = [k \in 1..Len(batch_rows) |-> batch_rows[k].abs]
             /\ total_appended' = count_batch(total_appended, batch_rows)
             /\ pc' = "final_flag"
             /\ UnitFrame
             /\ UNCHANGED <<tabs, max_row, r, page_end, values, i, total_scanned, batch_rows,
                            flag_updates, pages, scanLog, flaggedNormal, flagFailed>>,
             /\ RaiseUnit
             /\ UNCHANGED <<tabs, dest, flaggedNormal, lastAppend, flagFailed>>)

\* lines 333-334 and 339-342: the last flag write is not guarded; then the unit returns
FinalFlag ==
    /\ pc = "final_flag"
    /\ IF flag_updates = << >>
       THEN /\ UNCHANGED <<tabs, flaggedNormal, faultVars>>
            /\ ReturnUnit(total_appended, total_scanned, FALSE)
       ELSE \E o \in Outcomes :
              \/ /\ o = "ok" /\ FlagsInGrid(ws, flag_updates)
                 /\ tabs' = [tabs EXCEPT ![sid][flow] =
                                WriteFlags(@, flag_updates, sync_col(flow))]
                 /\ flaggedNormal' = IF START_FROM_NOW THEN flaggedNormal
                                     ELSE flaggedNormal \cup Rows3(sid, flow, flag_updates)
                 /\ UNCHANGED faultVars
                 /\ ReturnUnit(total_appended, total_scanned, FALSE)
              \/ /\ o # "ok"
                 /\ Fault \/ (IsAPIError(o) /\ ~FlagsInGrid(ws, flag_updates) /\ Refused)
                 /\ RaiseUnit
                 /\ UNCHANGED <<tabs, flaggedNormal>>
    /\ RetryIdle
    /\ UNCHANGED <<dest, lastAppend, flagFailed>>

\* ------------------------------------------------------------------------
\* The environment
\* ------------------------------------------------------------------------
RemoteCallPcs == {"open_master", "startup", "open_ss", "get_ws", "hdr", "read_page", "loop_append",
                  "loop_flag", "loop_flag_baseline", "final_append", "final_flag"}

\* the process is terminated in the middle of a run, while it waits for a remote call
Kill ==
    /\ pc \in RemoteCallPcs
    /\ Fault
    /\ pc' = "idle" /\ runStatus' = "killed"
    /\ unitLog' = IF unitLog.state = "running" THEN [unitLog EXCEPT !.state = "killed"]
                  ELSE unitLog
    /\ orphaned' = IF pc \in {"loop_flag", "final_flag"} /\ ~START_FROM_NOW
                   THEN orphaned \cup Rows3(sid, flow, flag_updates)
                   ELSE orphaned
    /\ ResetLocals
    /\ RetryIdle
    /\ UNCHANGED <<cfgVars, START_FROM_NOW, tabs, dest, mainVars, run, attempted, results,
                   edits, envChanged, prevClean, prevBaseline, preFlagged, baselined,
                   flaggedNormal, lastAppend, flagFailed>>

\* the tab whose owner is active between the runs
EditTab == <<1, "ALL">>
EditSid == EditTab[1]
EditFlow == EditTab[2]
\* column 1 is no required field; column 2 is one
EditCols == {1, 2}
EditedValue(row, c) == IF c = 2 /\ Strip(Cell(row, c)) # "" THEN "" ELSE "e"

\* between runs an owner edits one data cell of a source row
EditCell ==
    /\ pc = "idle" /\ edits < MaxEdits /\ 0 < run /\ run < MaxRuns
    /\ \E c \in EditCols :
        \E a \in start_row(EditFlow)..Len(tabs[EditSid][EditFlow].rows) :
            tabs' = [tabs EXCEPT ![EditSid][EditFlow].rows[a] =
                        SetCell(@, c, EditedValue(@, c))]
    /\ edits' = edits + 1 /\ envChanged' = TRUE
    /\ UNCHANGED <<cfgVars, START_FROM_NOW, dest, pc, mainVars, unitVars, retryVars, run,
                   runStatus, attempted, results, unitLog, prevClean, prevBaseline,
                   preFlagged, baselined, flaggedNormal, lastAppend, orphaned, flagFailed,
                   faultVars>>

\* between runs an owner adds a row at the end of a source tab
AddRow ==
    /\ pc = "idle" /\ edits < MaxEdits /\ 0 < run /\ run < MaxRuns
    /\ tabs' = [tabs EXCEPT ![EditSid][EditFlow].rows = Append(@, RowOK)]
    /\ edits' = edits + 1 /\ envChanged' = TRUE
    /\ UNCHANGED <<cfgVars, START_FROM_NOW, dest, pc, mainVars, unitVars, retryVars, run,
                   runStatus, attempted, results, unitLog, prevClean, prevBaseline,
                   preFlagged, baselined, flaggedNormal, lastAppend, orphaned, flagFailed,
                   faultVars>>

Next ==
    \/ StartRun \/ OpenMaster \/ Startup \/ BeginUnit \/ EndFlow
    \/ OpenSpreadsheet \/ GetWs \/ EnsureCols \/ WriteHeader \/ CheckRows \/ EnsureCols2
    \/ ReadPage \/ ProcessRow \/ EndPage \/ LoopAppend \/ LoopFlag \/ LoopFlagBaseline
    \/ ExitLoop \/ FinalAppend \/ FinalFlag
    \/ Kill \/ EditCell \/ AddRow

Spec == Init /\ [][Next]_vars

\* ------------------------------------------------------------------------
\* Runs under any page size and tail window
\* ------------------------------------------------------------------------
PagingTabs ==
    [s \in SourceIds |-> [f \in FlowSet |->
        IF s = 1 /\ f = "ALL" THEN Tab(f, <<RowOK, RowOK, RowOK, RowOK>>, 30)
        ELSE CHOOSE t \in TabChoices(s, f) : TRUE]]

InitPaging ==
    /\ PAGE_ROWS \in 0..MaxPageRows
    /\ TAIL_WINDOW_ROWS \in 0..MaxTailRows
    /\ BATCH_APPEND_ROWS = MaxBatchRows
    /\ BACKOFF_BASE_SEC = BackoffBaseDefault /\ BACKOFF_MAX_SEC = BackoffMaxDefault
    /\ probe = NoProbe /\ fleet = NoFleet
    /\ tabs = PagingTabs
    /\ InitRest

SpecPaging == InitPaging /\ [][Next]_vars

\* ------------------------------------------------------------------------
\* Runs under any positive backoff base and ceiling
\* ------------------------------------------------------------------------
InitBackoff ==
    /\ BACKOFF_BASE_SEC \in 1..MaxBase
    /\ BACKOFF_MAX_SEC \in 1..MaxCeiling
    /\ PAGE_ROWS = MaxPageRows /\ BATCH_APPEND_ROWS = MaxBatchRows
    /\ TAIL_WINDOW_ROWS = MaxTailRows
    /\ probe = NoProbe /\ fleet = NoFleet
    /\ tabs = PagingTabs
    /\ InitRest

SpecBackoff == InitBackoff /\ [][Next]_vars

\* ------------------------------------------------------------------------
\* A shard fleet: TOTAL_SHARDS workers, worker w started with SHARD_INDEX = w,
\* each running main (lines 357-384) on the same registry, side by side
\* ------------------------------------------------------------------------
\* the variables of the run of one worker, idle in the two developments apart
runVars == <<PAGE_ROWS, BATCH_APPEND_ROWS, TAIL_WINDOW_ROWS, BACKOFF_BASE_SEC, BACKOFF_MAX_SEC,
             START_FROM_NOW, tabs, dest, pc, mainVars, unitVars, retryVars, histVars, faultVars>>

NoTabs == [s \in SourceIds |-> [f \in FlowSet |-> MissingTab]]

InitIdle ==
    /\ PAGE_ROWS = MaxPageRows /\ BATCH_APPEND_ROWS = MaxBatchRows
    /\ TAIL_WINDOW_ROWS = MaxTailRows
    /\ BACKOFF_BASE_SEC = BackoffBaseDefault /\ BACKOFF_MAX_SEC = BackoffMaxDefault
    /\ tabs = NoTabs
    /\ InitRest

\* the lists get_source_ids can return: any order, an id may be listed twice
Registries == UNION {[1..n -> SourceIds] : n \in 0..MaxRegistry}

NewWorker == [pc |-> "start", sources |-> << >>, flowIdx |-> 1, srcIdx |-> 1]

InitFleet ==
    /\ InitIdle
    /\ probe = NoProbe
    /\ \E reg \in Registries : \E total \in 1..MaxShards :
          fleet = [state |-> "on", registry |-> reg, total |-> total,
                   workers |-> [w \in 0..(total - 1) |-> NewWorker],
                   touched |-> {}]

\* lines 357-366 in worker w: the source list, the early return, the shard filter
FleetStartup(w) ==
    /\ w < fleet.total
    /\ fleet.workers[w].pc = "start"
    /\ LET mine == ShardFilter(fleet.registry, fleet.total, w)
       IN fleet' = [fleet EXCEPT !.workers[w] =
                      [@ EXCEPT !.sources = mine,
                                !.pc = IF fleet.registry = << >> THEN "done" ELSE "loop"]]
    /\ UNCHANGED <<runVars, probe>>

\* line 373 in worker w: process_flow_for_source is called for the next source
FleetBeginUnit(w) ==
    /\ w < fleet.total
    /\ fleet.workers[w].pc = "loop"
    /\ fleet.workers[w].srcIdx <= Len(fleet.workers[w].sources)
    /\ fleet' = [fleet EXCEPT
                    !.workers[w].pc = "unit",
                    !.touched = @ \cup {<<w, fleet.workers[w].sources[fleet.workers[w].srcIdx]>>}]
    /\ UNCHANGED <<runVars, probe>>

\* lines 374-381 in worker w: the unit has returned or raised
FleetEndUnit(w) ==
    /\ w < fleet.total
    /\ fleet.workers[w].pc = "unit"
    /\ fleet' = [fleet EXCEPT !.workers[w].pc = "loop", !.workers[w].srcIdx = @ + 1]
    /\ UNCHANGED <<runVars, probe>>

\* lines 382-388 in worker w: the next flow, or the end of the run
FleetEndFlow(w) ==
    /\ w < fleet.total
    /\ fleet.workers[w].pc = "loop"
    /\ fleet.workers[w].srcIdx > Len(fleet.workers[w].sources)
    /\ fleet' = [fleet EXCEPT !.workers[w] =
                    IF @.flowIdx < Len(Flows)
                    THEN [@ EXCEPT !.flowIdx = @ + 1, !.srcIdx = 1]
                    ELSE [@ EXCEPT !.pc = "done"]]
    /\ UNCHANGED <<runVars, probe>>

NextFleet ==
    \/ \E w \in 0..(MaxShards - 1) : FleetStartup(w)
    \/ \E w \in 0..(MaxShards - 1) : FleetBeginUnit(w)
    \/ \E w \in 0..(MaxShards - 1) : FleetEndUnit(w)
    \/ \E w \in 0..(MaxShards - 1) : FleetEndFlow(w)

SpecFleet == InitFleet /\ [][NextFleet]_vars

\* ------------------------------------------------------------------------
\* Properties
\* ------------------------------------------------------------------------
\* how many destination rows were mirrored from source row x
DestCount(x) == Cardinality({k \in 1..Len(dest) : dest[k].src = x})
\* the destination rows appended by run n
DestOfRun(n) == {k \in 1..Len(dest) : dest[k].run = n}
\* the current grid row behind source row x
GridRow(x) == tabs[x[1]][x[2]].rows[x[3]]
DataBad(x) == \E k \in 1..Len(required(x[2])) : Strip(Cell(GridRow(x), required(x[2])[k])) = ""

\* C1 (idempotence): when the previous run was a normal-mode run that completed
\* with no remote call failing, and no source tab got a new row or an edit since
\* that run started, the current run appends no row to the destination.
C1_Idempotence ==
    (prevClean /\ ~prevBaseline) => DestOfRun(run) = {}

\* a second normal-mode run has completed after a clean first one that mirrored rows
C1_Witness ==
    /\ prevClean /\ ~prevBaseline /\ ~START_FROM_NOW
    /\ run = 2 /\ runStatus = "done"
    /\ Len(dest) >= 3 /\ grand_scan >= 3

\* C2 (no duplication under interruption): a row whose batch was appended by a
\* run that was killed before the flags of that batch were written is not
\* appended again by a later run.
C2_NoDuplicateAfterKill ==
    \A x \in orphaned : DestCount(x) <= 1

\* C3 (append before commit): in normal mode every row whose flag the engine
\* wrote is in the destination; the flags waiting to be written are those of the
\* rows of the batch, and at the flag write they are exactly the rows of the
\* append call that just succeeded; no batch exceeds BATCH_APPEND_ROWS rows.
C3_AppendBeforeCommit ==
    /\ \A x \in flaggedNormal : DestCount(x) >= 1
    /\ ~START_FROM_NOW =>
         /\ \A x \in FlaggedRows \ preFlagged : \E k \in DestOfRun(run) : dest[k].src = x
         /\ flag_updates = [k \in 1..Len(batch_rows) |-> batch_rows[k].abs]
         /\ pc \in {"loop_flag", "final_flag"} =>
               /\ flag_updates = lastAppend
               /\ \A x \in Rows3(sid, flow, flag_updates) :
                     \E k \in DestOfRun(run) : dest[k].src = x
    /\ Len(batch_rows) <= BATCH_APPEND_ROWS
    /\ Len(lastAppend) <= BATCH_APPEND_ROWS

\* after a remote failure in this run, a second batch waits for its flag write
\* while the flags of the first are written
C3_Witness ==
    /\ ~START_FROM_NOW /\ pc = "final_flag" /\ runFaulty
    /\ flaggedNormal # {} /\ Cardinality(DestOfRun(run)) >= 3

\* C4 (per-run completeness, exactly once): when a normal-mode unit returns and
\* none of its remote calls failed, the destination holds exactly one row of this
\* run for every row of the tab that was in the tail window
\* [max(start_row, max_row - TAIL_WINDOW_ROWS + 1), max_row], had every required
\* field non-blank and had a blank flag cell when the unit started, no row of
\* this run for any other row of the tab, and every such row is now flagged.
C4_ExactlyOncePerRun ==
    (unitLog.state = "returned" /\ ~unitLog.baseline /\ ~unitLog.faulty) =>
        LET q == Qualifying(unitLog.flow, unitLog.snap, TAIL_WINDOW_ROWS)
            mine == {k \in DestOfRun(unitLog.run) :
                        dest[k].src[1] = unitLog.sid /\ dest[k].src[2] = unitLog.flow}
        IN /\ \A k \in mine : dest[k].src[3] \in q
           /\ \A a \in q : Cardinality({k \in mine : dest[k].src[3] = a}) = 1
           /\ \A a \in q : <<unitLog.sid, unitLog.flow, a>> \in FlaggedRows

\* a clean normal-mode unit has returned from a tab with rows inside and outside
\* the window, some of them not qualifying
C4_Witness ==
    /\ unitLog.state = "returned" /\ ~unitLog.baseline /\ ~unitLog.faulty
    /\ Cardinality(Qualifying(unitLog.flow, unitLog.snap, TAIL_WINDOW_ROWS)) = 2
    /\ Len(unitLog.snap) - start_row(unitLog.flow) + 1 >= 4

\* C5 (a failed flag write does not cause re-mirroring): a row whose in-loop flag
\* write failed with an API error after its batch was appended is not appended
\* again, in this run or a later one.
C5_FlagFailureNotRemirrored ==
    \A x \in flagFailed : DestCount(x) <= 1

\* C6 (required-field gating): in both modes a scanned row with a required
\* position absent or blank after trimming is counted in the scanned counter and
\* changes nothing else; no row waiting in a batch or in the flag list, no row
\* appended by this run and no row flagged by this run is such a row.
C6_State ==
    /\ pc # "idle" =>
          \A a \in {batch_rows[k].abs : k \in 1..Len(batch_rows)}
                   \cup {flag_updates[k] : k \in 1..Len(flag_updates)} :
              ~DataBad(<<sid, flow, a>>)
    /\ ~envChanged =>
          /\ \A k \in DestOfRun(run) : ~DataBad(dest[k].src)
          /\ \A x \in FlaggedRows \ preFlagged : ~DataBad(x)

C6_Step ==
    (pc = "rows" /\ i < Len(values) /\ pc' # "idle"
        /\ \E k \in 1..Len(required(flow)) : Strip(Cell(values[i + 1], required(flow)[k])) = "")
    => /\ total_scanned' = total_scanned + 1
       /\ batch_rows' = batch_rows /\ flag_updates' = flag_updates
       /\ dest' = dest /\ tabs' = tabs /\ pc' = "rows"

C6_RequiredFieldGating == []C6_State /\ [][C6_Step]_vars

\* in a baseline run a row with a blank required field has just been scanned, after
\* another row of the page
C6_Witness ==
    /\ START_FROM_NOW /\ pc = "rows" /\ i >= 2 /\ total_scanned >= 2
    /\ BadRow(values[i], required(flow))
    /\ flag_updates # << >>

\* C7 (flag invariant, edit tolerance): a row whose flag cell was non-empty (not
\* blank after trimming, which is the test of line 294) when the run started is
\* not appended and not flagged again by that run, whatever its other cells hold
\* by then.
C7_FlagInvariant ==
    /\ \A k \in DestOfRun(run) : dest[k].src \notin preFlagged
    /\ pc # "idle" =>
          /\ \A k \in 1..Len(flag_updates) : <<sid, flow, flag_updates[k]>> \notin preFlagged
          /\ \A k \in 1..Len(batch_rows) : <<sid, flow, batch_rows[k].abs>> \notin preFlagged

\* a row mirrored and flagged by the first run had its first cell edited, and a
\* second normal-mode run has completed without mirroring it again
C7_Witness ==
    /\ run = 2 /\ runStatus = "done" /\ ~START_FROM_NOW /\ ~runFaulty
    /\ \E a \in START_ROW_ALL..Len(tabs[EditSid][EditFlow].rows) :
          /\ Cell(tabs[EditSid][EditFlow].rows[a], 1) = "e"
          /\ <<EditSid, EditFlow, a>> \in preFlagged \cap flaggedNormal
          /\ DestCount(<<EditSid, EditFlow, a>>) = 1

ExpectedUnits ==
    [k \in 1..(Len(Flows) * Len(sources)) |->
        <<Flows[((k - 1) \div Len(sources)) + 1], sources[((k - 1) % Len(sources)) + 1]>>]

RECURSIVE SumA(_)
SumA(rs) == IF rs = << >> THEN 0 ELSE Head(rs).a + SumA(Tail(rs))
RECURSIVE SumS(_)
SumS(rs) == IF rs = << >> THEN 0 ELSE Head(rs).s + SumS(Tail(rs))

\* C9 (failure isolation): the units main has called are a prefix of the expected
\* order, each called once; a unit that raised gave (0, 0) to the counters; a run
\* ends only by being killed, by failing before its first unit, or after every
\* unit was called; an exception of a unit never aborts the run; and the totals of
\* a completed run are the sums of what the units gave.
C9_FailureIsolation ==
    /\ Len(attempted) <= Len(ExpectedUnits)
    /\ attempted = SubSeq(ExpectedUnits, 1, Len(attempted))
    /\ Len(results) <= Len(attempted) /\ Len(attempted) <= Len(results) + 1
    /\ \A k \in 1..Len(results) : results[k].exc => (results[k].a = 0 /\ results[k].s = 0)
    /\ runStatus = "aborted" => attempted = << >>
    /\ runStatus = "done" =>
          /\ attempted = ExpectedUnits /\ Len(results) = Len(attempted)
          /\ grand_app = SumA(results) /\ grand_scan = SumS(results)
    /\ (pc = "idle" /\ runStatus \notin {"none", "killed", "aborted"}) => runStatus = "done"
    /\ unitLog.state = "raised" => runStatus \in {"running", "done", "killed"}

\* a run has completed although one of its units raised, and a unit called after
\* that one mirrored rows
C9_Witness ==
    /\ runStatus = "done"
    /\ \E j \in 1..Len(results) : \E k \in 1..Len(results) :
          j < k /\ results[j].exc /\ results[k].a > 0

\* attempts made by the wrapper call in progress or just finished
Tries == IF wstatus = "run" THEN attempt
         ELSE IF wstatus \in {"ret", "exc"} THEN attempt + 1 ELSE 0

\* the parts of C10 that concern one wrapper call: at most retries + 1 attempts; a
\* further attempt follows only an API error with a retryable signature; another
\* error leaves the wrapper at once; the first success returns
RetryLoopBounded ==
    /\ Tries <= retries + 1
    /\ wstatus = "run" => (IsAPIError(lastOutcome) /\ Retryable(lastOutcome) /\ attempt >= 1)
    /\ wstatus = "ret" => lastOutcome = "ok"
    /\ wstatus = "exc" =>
          /\ lastOutcome # "ok"
          /\ (IsAPIError(lastOutcome) /\ Retryable(lastOutcome)) => Tries = retries + 1
    /\ (wstatus # "none" /\ lastOutcome = "ok") => wstatus = "ret"
    /\ (wstatus # "none" /\ lastOutcome \in {"api_400", "conn"}) => wstatus = "exc"

\* C10 as stated (bounded retry): the wrapper properties, and an error that
\* leaves a wrapper fails the calling unit only, never the whole run.
C10_BoundedRetryOriginal ==
    /\ RetryLoopBounded
    /\ wstatus = "exc" => (runStatus # "aborted" /\ unitLog.state = "raised")

\* C10 as amended: the wrapper properties; an error that leaves a wrapper called
\* inside a unit fails that unit only, and an error that leaves the wrapper that
\* opens the master spreadsheet at startup, before any unit, ends the run.
C10_BoundedRetry ==
    /\ RetryLoopBounded
    /\ wstatus = "exc" =>
          IF attempted = << >>
          THEN runStatus = "aborted" /\ pc = "idle"
          ELSE /\ runStatus = "running" /\ pc = "next_unit"
               /\ unitLog.state = "raised" /\ unitLog.a = 0 /\ unitLog.s = 0

\* a wrapper inside a unit gave up after retries + 1 attempts that all failed with
\* a retryable error, and main goes on
C10_Witness ==
    /\ wstatus = "exc" /\ Tries = retries + 1 /\ lastOutcome = "api_429"
    /\ pc = "next_unit" /\ unitLog.state = "raised"

\* the destination rows the unit of unitLog has appended
UnitDest == {k \in DestOfRun(unitLog.run) :
                dest[k].src[1] = unitLog.sid /\ dest[k].src[2] = unitLog.flow}

\* C14 (order preservation): the rows a unit scans have strictly increasing row
\* numbers; the rows waiting in its batch follow, in row order, those it has
\* appended; and the rows it has appended stand in the destination in the order
\* of their row numbers, over all of its batches.
C14_OrderPreservation ==
    /\ \A j \in 1..Len(scanLog) : \A k \in 1..Len(scanLog) :
          j < k => scanLog[j][1] < scanLog[k][1]
    /\ \A j \in 1..Len(batch_rows) : \A k \in 1..Len(batch_rows) :
          j < k => batch_rows[j].abs < batch_rows[k].abs
    /\ \A n \in 1..run : \A j \in DestOfRun(n) : \A k \in DestOfRun(n) :
          (j < k /\ dest[j].src[1] = dest[k].src[1] /\ dest[j].src[2] = dest[k].src[2])
              => dest[j].src[3] < dest[k].src[3]
    /\ (unitLog.state = "running" /\ pc \notin {"final_flag", "loop_flag"}) =>
          \A k \in UnitDest : \A j \in 1..Len(batch_rows) : dest[k].src[3] < batch_rows[j].abs

\* a unit has returned after appending three rows in two batches, read in two
\* pages, to a destination that also holds rows of other units
C14_Witness ==
    /\ unitLog.state = "returned" /\ unitLog.a = 3 /\ BATCH_APPEND_ROWS = 2
    /\ Cardinality(UnitDest) = 3 /\ Len(dest) > 3

C16_MissingTabNotRetried ==
    (run >= 2 /\ prevClean) =>
        \A k \in 1..Len(attempted) : tabs[attempted[k][2]][attempted[k][1]].exists

\* C19 as stated (counter accuracy): what a unit gives main as its appended count,
\* whether it returned or raised, is the number of rows it appended, and the grand
\* total of a completed run is the number of rows the run appended.
C19_CounterAccuracyOriginal ==
    /\ unitLog.state \in {"returned", "raised"} => unitLog.a = Len(dest) - unitLog.dlen
    /\ runStatus = "done" => grand_app = Cardinality(DestOfRun(run))

\* C19 as amended: total_appended is the number of rows the unit has appended (less
\* the batch in hand between its append and its flag write); a unit that returns
\* gives that number; a unit that raises gives 0 whatever it appended; so the grand
\* total of a completed run is the number of rows appended by the units that
\* returned, at most the number the run appended, and equal to it when none raised.
C19_CounterAccuracy ==
    /\ unitLog.state = "running" =>
          total_appended + (IF pc = "loop_flag" THEN Len(batch_rows) ELSE 0)
              = Len(dest) - unitLog.dlen
    /\ unitLog.state = "returned" => unitLog.a = Len(dest) - unitLog.dlen
    /\ unitLog.state = "raised" => (unitLog.a = 0 /\ Len(dest) >= unitLog.dlen)
    /\ runStatus = "done" =>
          /\ grand_app <= Cardinality(DestOfRun(run))
          /\ (\A k \in 1..Len(results) : ~results[k].exc) =>
                grand_app = Cardinality(DestOfRun(run))

\* a run has completed in which a unit raised after appending a batch and a later
\* unit appended a row: the total counts the later row only
C19_Witness ==
    /\ runStatus = "done" /\ grand_app = 1
    /\ Cardinality(DestOfRun(run)) >= 3
    /\ \E k \in 1..Len(results) : results[k].exc

\* the row of a grid before a step, empty when the grid was shorter
OldRow(s, f, a) == IF a <= Len(tabs[s][f].rows) THEN tabs[s][f].rows[a] ELSE << >>

\* C20 (write footprint): a step of a run changes no tab but the tab of the unit
\* in progress; there it removes no row, and the only cells it changes are flag
\* column cells: the header cell of row start_row - 1, which gets the header text,
\* and the flag cells of rows that were valid, unflagged and in the tail window
\* when the unit was called, which get "1"; and every step leaves the rows the
\* destination holds as they are, in place.
C20_Step ==
    /\ Len(dest') >= Len(dest) /\ SubSeq(dest', 1, Len(dest)) = dest
    /\ pc # "idle" =>
          \A s \in SourceIds : \A f \in FlowSet :
              IF ~(unitLog.state = "running" /\ unitLog.sid = s /\ unitLog.flow = f)
              THEN tabs'[s][f] = tabs[s][f]
              ELSE /\ tabs'[s][f].exists = tabs[s][f].exists
                   /\ Len(tabs'[s][f].rows) >= Len(tabs[s][f].rows)
                   /\ \A a \in 1..Len(tabs'[s][f].rows) : \A c \in 1..(sync_col(f) + 1) :
                         Cell(tabs'[s][f].rows[a], c) # Cell(OldRow(s, f, a), c) =>
                             /\ c = sync_col(f)
                             /\ \/ /\ a = start_row(f) - 1
                                   /\ Cell(tabs'[s][f].rows[a], c) = HeaderText(f)
                                \/ /\ a \in Qualifying(f, unitLog.snap, TAIL_WINDOW_ROWS)
                                   /\ Cell(tabs'[s][f].rows[a], c) = "1"

C20_WriteFootprint == [][C20_Step]_vars

\* a second run has completed: the tab holds the header text and flags written by
\* the engine, and the destination holds rows of both runs
C20_Witness ==
    /\ run = 2 /\ runStatus = "done"
    /\ DestOfRun(1) # {} /\ DestOfRun(2) # {}
    /\ Cell(tabs[1]["ALL"].rows[START_ROW_ALL - 1], SYNC_COL_ALL) = "__SYNCED_ALL"
    /\ flaggedNormal # {}

\* the unit is in or after its page loop
InLoop == pc \in {"read_page", "rows", "loop_append", "loop_flag", "loop_flag_baseline",
                  "final_append", "final_flag"}
\* the first row of the tail window of the unit
WindowFirst == Max(start_row(flow), max_row - TAIL_WINDOW_ROWS + 1)
\* row a of the tab as it was when the unit was called
SnapRow(a) == IF a <= Len(unitLog.snap) THEN unitLog.snap[a] ELSE << >>

\* the ranges requested so far are non-empty, of at most PAGE_ROWS rows, the first
\* starts the window and each next one starts right after the one before; their
\* number is at most the number of rows of the window, so the loop ends; when it
\* has ended the last range ends at max_row; every scanned row has a row number of
\* a requested range, scanned once, and holds what that row of the tab held
PagingCoverage ==
    InLoop =>
        /\ \A k \in 1..Len(pages) :
              /\ pages[k][1] <= pages[k][2] /\ pages[k][2] <= max_row
              /\ pages[k][2] - pages[k][1] + 1 <= PAGE_ROWS
              /\ pages[k][1] = IF k = 1 THEN WindowFirst ELSE pages[k - 1][2] + 1
        /\ Len(pages) <= Max(0, max_row - WindowFirst + 1)
        /\ pc = "read_page" =>
              /\ r = IF pages = << >> THEN WindowFirst ELSE pages[Len(pages)][2] + 1
              /\ r <= max_row => Len(pages) < MaxPages
        /\ ((pc = "read_page" /\ r > max_row) \/ pc \in {"final_append", "final_flag"}) =>
              (WindowFirst <= max_row =>
                  (pages # << >> /\ pages[Len(pages)][2] = max_row))
        /\ \A j \in 1..Len(scanLog) :
              /\ \E k \in 1..Len(pages) :
                    pages[k][1] <= scanLog[j][1] /\ scanLog[j][1] <= pages[k][2]
              /\ \A k \in 1..Len(scanLog) : j < k => scanLog[j][1] < scanLog[k][1]
              /\ \A c \in 1..max_col(flow) :
                    Cell(scanLog[j][2], c) = Cell(SnapRow(scanLog[j][1]), c)

\* C17 as stated (paging coverage and termination), for any PAGE_ROWS.
C17_PagingOriginal == PagingCoverage

\* C17 as amended: the same for any PAGE_ROWS of at least 1.
C17_Paging == PAGE_ROWS >= 1 => PagingCoverage

\* the page loop of a unit has ended after a full page and a partial one that
\* together cover a window of three rows
C17_Witness ==
    /\ pc = "read_page" /\ r > max_row /\ PAGE_ROWS = 2 /\ TAIL_WINDOW_ROWS = 3
    /\ Len(pages) = 2 /\ pages[2][1] = pages[2][2] /\ pages[2][2] = max_row
    /\ Len(scanLog) = 3

\* what C18 says of the waits of one retry loop whatever the settings: the first
\* wait is BACKOFF_BASE_SEC, each next one is min(2 * previous, BACKOFF_MAX_SEC),
\* which is also what backoff_delay returned for the next turn
BackoffDoubling ==
    /\ Len(waits) <= retries
    /\ waits # << >> => waits[1] = BACKOFF_BASE_SEC
    /\ \A k \in 2..Len(waits) :
          waits[k] = IF 2 * waits[k - 1] <= BACKOFF_MAX_SEC THEN 2 * waits[k - 1]
                     ELSE BACKOFF_MAX_SEC
    /\ wstatus = "run" =>
          /\ Len(waits) = attempt
          /\ delay = IF 2 * waits[Len(waits)] <= BACKOFF_MAX_SEC THEN 2 * waits[Len(waits)]
                      ELSE BACKOFF_MAX_SEC

\* the waits never decrease and none exceeds BACKOFF_MAX_SEC
BackoffMonotoneCapped ==
    /\ \A k \in 2..Len(waits) : waits[k - 1] <= waits[k]
    /\ \A k \in 1..Len(waits) : waits[k] <= BACKOFF_MAX_SEC

\* C18 as stated (backoff schedule), for any positive base and ceiling.
C18_BackoffOriginal == BackoffDoubling /\ BackoffMonotoneCapped

\* C18 as amended: the doubling for any positive base and ceiling; never
\* decreasing and never above the ceiling when the base is at most the ceiling.
C18_Backoff ==
    /\ BackoffDoubling
    /\ BACKOFF_BASE_SEC <= BACKOFF_MAX_SEC => BackoffMonotoneCapped

\* a wrapper has given up after six waits that doubled from the base up to the
\* ceiling and stayed there
C18_Witness ==
    /\ wstatus = "exc" /\ BACKOFF_BASE_SEC = 1 /\ BACKOFF_MAX_SEC = 4
    /\ waits = <<1, 2, 4, 4, 4, 4>>

\* ------------------------------------------------------------------------
\* The row mapper on its own: map_row_to_master (lines 179-187) called on any row
\* ------------------------------------------------------------------------
\* a source row of n cells, each cell naming its position
ProbeRow(n) == [k \in 1..n |-> "c" \o ToString(k)]

InitMapper ==
    /\ InitIdle
    /\ fleet = NoFleet
    /\ \E n \in 0..MaxRowLen : \E w \in 0..MaxWidth :
       \E mp \in {MAP_ALL, MAP_LI} : \E st \in {STATIC_ALL, STATIC_LI} :
          probe = [state |-> "args", row |-> ProbeRow(n), mp |-> mp, st |-> st,
                   width |-> w, out |-> << >>]

\* line 315: the call
MapRow ==
    /\ probe.state = "args"
    /\ probe' = [probe EXCEPT
                    !.out = map_row_to_master(probe.row, probe.mp, probe.st, probe.width),
                    !.state = "done"]
    /\ UNCHANGED <<runVars, fleet>>

NextMapper == MapRow

SpecMapper == InitMapper /\ [][NextMapper]_vars

\* C13 (width padding and mapping): the mapper returns exactly width cells for a
\* row of any length; cell d holds the source cell s of the mapping s -> d, or ""
\* when the row has fewer than s cells; else the static value of d; else "".
C13_WidthPaddingAndMapping ==
    probe.state = "done" =>
        /\ Len(probe.out) = probe.width
        /\ \A d \in 1..probe.width :
              LET ms == {k \in 1..Len(probe.mp) : probe.mp[k][2] = d}
                  ss == {k \in 1..Len(probe.st) : probe.st[k][1] = d}
              IN IF ms # {}
                 THEN LET src == probe.mp[CHOOSE k \in ms : TRUE][1]
                      IN probe.out[d] = IF src <= Len(probe.row) THEN probe.row[src] ELSE ""
                 ELSE IF ss # {}
                 THEN probe.out[d] = probe.st[CHOOSE k \in ss : TRUE][2]
                 ELSE probe.out[d] = ""

\* the mapper has returned for a row of ten cells, a width below the widest mapped
\* position, and a static value at a position that is also mapped
C13_Witness ==
    /\ probe.state = "done" /\ Len(probe.row) = 10 /\ probe.width = 8
    /\ probe.mp = MAP_ALL /\ probe.st = STATIC_LI
    /\ probe.out[5] = "c10" /\ probe.out[7] = "" /\ probe.out[8] = "" /\ probe.out[6] = "c2"

\* ------------------------------------------------------------------------
\* Properties of the shard fleet
\* ------------------------------------------------------------------------
Started == {w \in 0..(fleet.total - 1) : fleet.workers[w].pc # "start"}
Count(v, seq) == Cardinality({k \in 1..Len(seq) : seq[k] = v})
RECURSIVE SumOver(_, _)
\* the sum of f[w] over the workers of set wset
SumOver(f, wset) ==
    IF wset = {} THEN 0
    ELSE LET w0 == CHOOSE x \in wset : TRUE IN f[w0] + SumOver(f, wset \ {w0})
RECURSIVE IsSubseq(_, _)
\* a is b with some entries left out, order kept
IsSubseq(a, b) ==
    IF a = << >> THEN TRUE
    ELSE IF b = << >> THEN FALSE
    ELSE IF Head(a) = Head(b) THEN IsSubseq(Tail(a), Tail(b))
    ELSE IsSubseq(a, Tail(b))

\* C11 (sharding partition): for a registry of any content and TOTAL_SHARDS = S,
\* the lists the workers 0..S-1 get from the shard filter keep the registry order,
\* hold no entry twice over the workers, and once every worker has started they
\* hold every entry of the registry exactly once; an id listed once is in the
\* list of exactly one worker.
C11_ShardingPartition ==
    /\ \A w \in Started : IsSubseq(fleet.workers[w].sources, fleet.registry)
    /\ \A v \in SourceIds :
          LET n == SumOver([w \in Started |-> Count(v, fleet.workers[w].sources)], Started)
          IN /\ n <= Count(v, fleet.registry)
             /\ Started = 0..(fleet.total - 1) => n = Count(v, fleet.registry)
             /\ Count(v, fleet.registry) = 1 =>
                   Cardinality({w \in Started : Count(v, fleet.workers[w].sources) > 0}) <= 1
    /\ Started = 0..(fleet.total - 1) =>
          SumOver([w \in Started |-> Len(fleet.workers[w].sources)], Started)
              = Len(fleet.registry)

\* three workers have started on a registry of three entries, one id listed twice
C11_Witness ==
    /\ fleet.total = 3 /\ Len(fleet.registry) = 3 /\ Started = 0..2
    /\ Count(1, fleet.registry) = 2
    /\ \A w \in 0..2 : Len(fleet.workers[w].sources) = 1

\* C12 (cross-shard non-overlap): whatever list get_source_ids returns, no source
\* spreadsheet is processed by two different workers of the fleet.
C12_NoSharedSource ==
    \A x \in fleet.touched : \A y \in fleet.touched : x[2] = y[2] => x[1] = y[1]

====
